---- MODULE Spec2Model ----
(***************************************************************************)
(* Model of solelog/Logging.py, class SoleLog: the constructor, the        *)
(* severity methods that forward to __log, the ingest queue, the           *)
(* background writer (__writeToFile with __logRotation) and close().       *)
(*                                                                         *)
(* Threads: the owner thread (constructor, close), the producer threads    *)
(* (the emit calls) and the one writer thread.  Each action is one step    *)
(* that is atomic with respect to the other threads: a step ends where     *)
(* another thread can observe or change the shared state (the queue, the   *)
(* session map, the files).                                                *)
(*                                                                         *)
(* File sizes are counted in record units: one persisted line is           *)
(* LineBytes, an aggregate document is DocOverhead plus one unit per       *)
(* record, and maxLogSize is a threshold in the same unit.                 *)
(* Left out, because no step of the pipeline reads them: the timestamp     *)
(* text, the caller's file, function and line, and the ANSI colouring of   *)
(* the display string.  Messages are values json.dumps accepts, the        *)
(* "serializable value" of the specification's formatter inputs.           *)
(***************************************************************************)
EXTENDS Integers, Sequences, FiniteSets, TLC

VARIABLES
    args,              \* the constructor's arguments, consumed by Construct
    mainPc,            \* owner thread: new, ready, closing, closed, closeRaised, exited
    logSaveFormat,     \* self.__logSaveFormat
    logPriority,       \* self.logPriority
    formatJsonLogs,    \* self.__formatJsonLogs
    logDir,            \* self.__logDir
    showLogInConsole,  \* self.showLogInConsole
    maxLogSize,        \* self.maxLogSize
    sessions,          \* self.__sessions, the rotation counter of the next file
    logFile,           \* self.__logFile, as the rotation counter in its name
    sessionLogs,       \* self.__sessionLogs
    queue,             \* self.__queue
    files,             \* the file system under rootDir: files[c] is the file named with counter c
    writerPc,          \* writer thread: notStarted, get, persist, exited, failed
    cur,               \* collectedLogs in __writeToFile
    prod,              \* where each producer thread is inside __log: idle, check, create
    lastCall,          \* history: the emit call made by the last step, with what it returns
    emits,             \* number of emit calls made so far
    enqueued,          \* history: the records put on the queue by emit calls, in put order
    sentinelAt,        \* history: Len(enqueued) when close() put the sentinel, -1 before
    ioLog,             \* history: the kinds of file operation performed so far
    closeOutcome       \* history: what close() found: none, kept, deleted

vars == <<args, mainPc, logSaveFormat, logPriority, formatJsonLogs, logDir,
          showLogInConsole, maxLogSize, sessions, logFile, sessionLogs, queue,
          files, writerPc, cur, prod, lastCall, emits, enqueued, sentinelAt,
          ioLog, closeOutcome>>

(***************************************************************************)
(* Bounds of the model.                                                    *)
(***************************************************************************)
MaxEmits == 2

MaxFilterEmits == 1

ProducerOrder == <<"p1", "p2">>

Producers == {ProducerOrder[i] : i \in 1..Len(ProducerOrder)}

\* The inputs the two specifications draw from.  Spec explores the pipeline:
\* every save format, aggregation mode and size threshold, up to MaxEmits
\* emit calls, with what the writer never reads (the minimum priority, the
\* console default, the severity of a record) held to few values.  SpecFilter
\* explores the filter and the echo policy: every minimum priority, console
\* default and severity method, up to MaxFilterEmits emit calls, with one
\* format and one threshold.
PriorityArgs == {"DEBUG", "INFO", "WARNING", "ERROR", "CRITICAL", "warning", "TRACE"}

PipelinePriorityArgs == {"DEBUG", "WARNING"}

FormatArgs == {"json", "txt", " JSON ", "xml"}

MaxLogSizes == {0, 1, 3}

Messages == {"boot"}

\* A message json cannot serialize, such as a set or an arbitrary object.
NotSerializable == "<object>"

\* The messages of the runs that vary the message: a string, None, and a
\* value json cannot serialize.
MessageArgs == {"boot", "None", NotSerializable}

(***************************************************************************)
(* Values.                                                                 *)
(***************************************************************************)
None == "None"

\* The outcome of a rank lookup that raises ValueError (ranks are 0..4).
ValueError == -1

\* Python's None as a queue item, and a local that holds nothing yet.
Sentinel == [type |-> "NoneType"]

Unset == [type |-> "unset"]

\* self.__logFile before any assignment: reading it raises AttributeError.
NoFile == 0

SessionUuid == "uuid4"

LogDirPath == "/logs"

LineBytes == 1

DocOverhead == 1

LOGGINGLEVELS == <<"DEBUG", "INFO", "WARNING", "ERROR", "CRITICAL">>

Methods == {"DEBUG", "INFO", "WARNING", "ERROR", "CRITICAL", "exception"}

PipelineMethods == {"DEBUG", "ERROR", "exception"}

LogTypeOf(method) == IF method = "exception" THEN "ERROR" ELSE method

\* The message a method hands to __log: exception() appends the traceback text.
MessageOf(method, message) ==
    IF method = "exception" THEN <<message, "traceback">> ELSE <<message>>

(***************************************************************************)
(* str.upper, str.lower and str.strip on the strings of the model.         *)
(***************************************************************************)
Upper(s) ==
    CASE s = "warning" -> "WARNING"
      [] s = "Info"    -> "INFO"
      [] s = "json"    -> "JSON"
      [] s = "txt"     -> "TXT"
      [] s = "xml"     -> "XML"
      [] OTHER         -> s

Lower(s) ==
    CASE s = " JSON "  -> " json "
      [] s = "JSON"    -> "json"
      [] s = "WARNING" -> "warning"
      [] OTHER         -> s

Strip(s) ==
    CASE s = " json " -> "json"
      [] s = " JSON " -> "JSON"
      [] OTHER        -> s

Range(s) == {s[i] : i \in 1..Len(s)}

\* list.index: the 0-based position of x, ValueError when x is not in the list.
IndexOf(s, x) ==
    IF \E i \in 1..Len(s) : s[i] = x
    THEN (CHOOSE i \in 1..Len(s) : s[i] = x /\ \A j \in 1..(i - 1) : s[j] # x) - 1
    ELSE ValueError

GetPriority(level) ==
    IF Upper(level) \notin Range(LOGGINGLEVELS)
    THEN ValueError
    ELSE IndexOf(LOGGINGLEVELS, level)

\* The comparison of lines 217 and 222; it raises when either rank raises.
PriorityRaises(logType, minLevel) ==
    GetPriority(logType) = ValueError \/ GetPriority(minLevel) = ValueError

PriorityBelow(logType, minLevel) ==
    /\ ~PriorityRaises(logType, minLevel)
    /\ GetPriority(logType) < GetPriority(minLevel)

(***************************************************************************)
(* The two representations __log builds.                                   *)
(***************************************************************************)
NoneLog == [isNone |-> TRUE, Level |-> "", Message |-> <<>>]

GeneratedLog(logType, message) ==
    [isNone |-> FALSE, Level |-> logType, Message |-> message]

\* currentLog; seq stands for the fields that tell two records apart
\* (the timestamp and the call site).
CurrentLog(n, logType, message) ==
    [type |-> "dict", seq |-> n, Level |-> logType, Message |-> message]

Explicits == {"True", "False", None}

\* Lines 216-220: the value returned when no directory is configured.
ConsoleOnlyReturn(logType, minLevel, generatedLog) ==
    IF PriorityBelow(logType, minLevel) THEN NoneLog ELSE generatedLog

\* Mutant of FileModeLog: the display string is kept whatever the priority.
FileModeLogUnfiltered(logType, minLevel, generatedLog) == generatedLog

\* Lines 222-223: the display string in file mode.
FileModeLog(logType, minLevel, generatedLog) ==
    IF PriorityBelow(logType, minLevel) THEN NoneLog ELSE generatedLog

\* Lines 243-253: the value returned in file mode.
FileModeReturn(explicitLogConsole, show, generatedLog) ==
    IF explicitLogConsole = "True" THEN generatedLog
    ELSE IF explicitLogConsole = "False" /\ show THEN NoneLog
    ELSE IF show THEN generatedLog
    ELSE NoneLog

(***************************************************************************)
(* The files.  A file is its existence and its content, a sequence of      *)
(* chunks in write order: one chunk per appended line, or the one          *)
(* document json.dump wrote after truncating.                              *)
(***************************************************************************)
EmptyFile == [exists |-> TRUE, content |-> <<>>]

\* json.dumps(collectedLogs) + "\n": the record as one compact JSON object.
JsonLine(rec) == [kind |-> "jsonl", Level |-> rec.Level, Message |-> rec.Message, seq |-> rec.seq]

\* f"[{Timestamp}] -> [{Level:<8}] - {Message}\n"
TxtLine(rec) == [kind |-> "txt", Level |-> rec.Level, Message |-> rec.Message, seq |-> rec.seq]

\* json.dump(self.__sessionLogs, f, indent=2): every key with its list of objects.
JsonDoc(map) ==
    [kind |-> "doc",
     keys |-> DOMAIN map,
     items |-> [k \in DOMAIN map |-> [i \in 1..Len(map[k]) |-> JsonLine(map[k][i])]]]

ChunkBytes(chunk) ==
    IF chunk.kind = "doc"
    THEN DocOverhead + Len(chunk.items[SessionUuid]) * LineBytes
    ELSE LineBytes

RECURSIVE ContentBytes(_)
ContentBytes(content) ==
    IF content = <<>> THEN 0
    ELSE ChunkBytes(Head(content)) + ContentBytes(Tail(content))

\* os.path.getsize
GetSize(file) == ContentBytes(file.content)

\* Mutant of AppendWrite: the file is opened with "w" instead of "a".
AppendWriteTruncating(file, chunk) == [exists |-> TRUE, content |-> <<chunk>>]

\* open(path, "a").write(chunk)
AppendWrite(file, chunk) == [exists |-> TRUE, content |-> Append(file.content, chunk)]

\* open(path, "w") followed by one write
TruncateWrite(file, chunk) == [exists |-> TRUE, content |-> <<chunk>>]

\* A name that no file carries, or whose file has been removed.
NoSuchFile == [exists |-> FALSE, content |-> <<>>]

\* open(name, "w") with nothing written: the file whose name carries the
\* counter is created, or emptied when it exists.  The files are kept by
\* the counter in their names: files[c] is the file "...(c).ext".
OpenW(fs, counter) ==
    IF counter \in DOMAIN fs THEN [fs EXCEPT ![counter] = EmptyFile]
    ELSE IF counter = Len(fs) + 1 THEN Append(fs, EmptyFile)
    ELSE [c \in 1..counter |->
            IF c \in DOMAIN fs THEN fs[c]
            ELSE IF c = counter THEN EmptyFile
            ELSE NoSuchFile]

\* Mutant of NextCounter: the counter is left as it is.
NextCounterStuck(n) == n

\* Lines 104, 107 and 295: self.__sessions += 1
NextCounter(n) == n + 1

\* Mutant of NeedsRotation: a file exactly at the threshold is kept.
NeedsRotationAboveOnly(size, threshold) == size > threshold

\* Line 290: the rotation test.
NeedsRotation(size, threshold) == size >= threshold

\* Whether json.dumps / json.dump accept the record (lines 338 and 342).  A
\* message of two parts is the string exception() builds at line 383.
Serializable(rec) == ~(Len(rec.Message) = 1 /\ rec.Message[1] = NotSerializable)

\* json.dump streams the document into the file opened with "w" and raises
\* TypeError at the message it cannot serialize: the old content is gone and
\* an unfinished document is left.
PartialDoc(map) == [JsonDoc(map) EXCEPT !.kind = "partial"]

\* Lines 336-342 when the record cannot be serialized: with aggregation the
\* file is left with the unfinished document; without, json.dumps raises
\* before the write and the file is as it was.
PersistInterrupted(file, aggregate, map) ==
    IF aggregate THEN TruncateWrite(file, PartialDoc(map)) ELSE file

\* Mutant of Persist: with aggregation only the json format writes.
PersistAggregateJsonOnly(file, rec, format, aggregate, map) ==
    IF aggregate
    THEN IF format = "json" THEN TruncateWrite(file, JsonDoc(map)) ELSE file
    ELSE IF format = "json" THEN AppendWrite(file, JsonLine(rec))
    ELSE AppendWrite(file, TxtLine(rec))

\* Lines 336-346: what the writer does to the active file for one record.
Persist(file, rec, format, aggregate, map) ==
    IF format = "json" /\ aggregate THEN TruncateWrite(file, JsonDoc(map))
    ELSE IF format = "json" /\ ~aggregate THEN AppendWrite(file, JsonLine(rec))
    ELSE IF format = "txt" THEN AppendWrite(file, TxtLine(rec))
    ELSE file

\* queue.Queue.get / put: FIFO.
QueueGet(q) == Head(q)

\* Mutant of QueuePut: the item goes to the head of the queue.
QueuePutFirst(q, item) == <<item>> \o q

QueuePut(q, item) == Append(q, item)

(***************************************************************************)
(* Initial state: the constructor is about to run on its arguments.        *)
(***************************************************************************)
NoArgs == [logPriority |-> "", logSaveFormat |-> "", logDirPath |-> None,
           showLogInConsole |-> FALSE, formatJsonLog |-> FALSE, maxLogSize |-> 0]

NoCall == [status |-> "none", logType |-> "", explicit |-> None, ret |-> NoneLog]

PipelineArgs ==
    [logPriority : PipelinePriorityArgs,
     logSaveFormat : FormatArgs,
     logDirPath : {None, LogDirPath},
     showLogInConsole : {TRUE},
     formatJsonLog : BOOLEAN,
     maxLogSize : MaxLogSizes]

FilterArgs ==
    [logPriority : PriorityArgs,
     logSaveFormat : {"txt"},
     logDirPath : {None, LogDirPath},
     showLogInConsole : BOOLEAN,
     formatJsonLog : BOOLEAN,
     maxLogSize : {1}]

InitWith(argSet) ==
    /\ args \in argSet
    /\ mainPc = "new"
    /\ logSaveFormat = ""
    /\ logPriority = ""
    /\ formatJsonLogs = FALSE
    /\ logDir = None
    /\ showLogInConsole = FALSE
    /\ maxLogSize = 0
    /\ sessions = 1
    /\ logFile = NoFile
    /\ sessionLogs = <<>>
    /\ queue = <<>>
    /\ files = <<>>
    /\ writerPc = "notStarted"
    /\ cur = Unset
    /\ prod = [p \in Producers |-> "idle"]
    /\ lastCall = NoCall
    /\ emits = 0
    /\ enqueued = <<>>
    /\ sentinelAt = -1
    /\ ioLog = {}
    /\ closeOutcome = "none"

(***************************************************************************)
(* __init__, lines 67-123.  The directory given is taken to be usable, so  *)
(* the only construction failure is the format check of line 109, which    *)
(* runs only when a directory is given.                                    *)
(***************************************************************************)
Construct ==
    /\ mainPc = "new"
    /\ LET fmt == Strip(Lower(args.logSaveFormat))
           hasDir == args.logDirPath # None
           bad == hasDir /\ fmt \notin {"json", "txt"}
       IN /\ logSaveFormat' = fmt
          /\ logPriority' = Upper(args.logPriority)
          /\ formatJsonLogs' = args.formatJsonLog
          /\ showLogInConsole' = args.showLogInConsole
          /\ maxLogSize' = args.maxLogSize
          /\ logDir' = args.logDirPath
          /\ IF hasDir /\ ~bad
             THEN /\ logFile' = sessions
                  /\ sessions' = NextCounter(sessions)
                  /\ files' = OpenW(files, sessions)
                  /\ ioLog' = ioLog \cup {"create"}
             ELSE UNCHANGED <<logFile, sessions, files, ioLog>>
          /\ mainPc' = IF bad THEN "exited" ELSE "ready"
          /\ writerPc' = IF bad THEN "notStarted" ELSE "get"
    /\ args' = NoArgs
    /\ UNCHANGED <<sessionLogs, queue, cur, prod, emits, enqueued, sentinelAt,
                   closeOutcome>>
    /\ lastCall' = NoCall

(***************************************************************************)
(* An emit call: DEBUG, INFO, WARNING, ERROR, CRITICAL or exception, each  *)
(* forwarding to __log (lines 153-253) and printing what it returns.       *)
(* EmitCall runs __log up to the put of line 233.  What the call returns   *)
(* (lines 243-253) depends only on its arguments and on attributes that    *)
(* never change after construction, so it is recorded in lastCall by this  *)
(* step.  Without aggregation nothing shared is touched after the put and  *)
(* the call is over; with aggregation the test of line 240 and the         *)
(* assignment of line 241 are two further steps, between which other       *)
(* threads run.  No step ever removes the session's key, so a call that    *)
(* finds the key present at its put finds it present at line 240 too and   *)
(* is over with the put.                                                   *)
(* The producer threads run the same code and nothing records which thread *)
(* made a call, so a call is made by the first thread that is not inside   *)
(* one.                                                                    *)
(***************************************************************************)
Constructed == mainPc \in {"ready", "closing", "closed", "closeRaised"}

FirstIdle(p) ==
    /\ prod[p] = "idle"
    /\ \A i \in 1..Len(ProducerOrder), j \in 1..Len(ProducerOrder) :
          (ProducerOrder[j] = p /\ i < j) => prod[ProducerOrder[i]] # "idle"

\* The call returns value to the severity method, which prints it unless it is None.
Returned(logType, explicit, value) ==
    [status |-> "returned", logType |-> logType, explicit |-> explicit, ret |-> value]

Raised(logType, explicit) ==
    [status |-> "raised", logType |-> logType, explicit |-> explicit, ret |-> NoneLog]

EmitCall(p, method, message, explicit, bound) ==
    /\ Constructed
    /\ FirstIdle(p)
    /\ emits < bound
    /\ emits' = emits + 1
    /\ LET logType == LogTypeOf(method)
           generatedLog == GeneratedLog(logType, MessageOf(method, message))
       IN IF PriorityRaises(logType, logPriority)
          THEN \* __getPriority raises ValueError out of the emit call
               /\ lastCall' = Raised(logType, explicit)
               /\ UNCHANGED <<queue, enqueued, prod>>
          ELSE IF logDir = None
          THEN /\ lastCall' = Returned(logType, explicit,
                                       ConsoleOnlyReturn(logType, logPriority, generatedLog))
               /\ UNCHANGED <<queue, enqueued, prod>>
          ELSE LET log == FileModeLog(logType, logPriority, generatedLog)
                   currentLog == CurrentLog(emits + 1, logType, MessageOf(method, message))
               IN /\ queue' = QueuePut(queue, currentLog)
                  /\ enqueued' = Append(enqueued, currentLog)
                  /\ lastCall' = Returned(logType, explicit,
                                          FileModeReturn(explicit, showLogInConsole, log))
                  /\ prod' = [prod EXCEPT ![p] =
                                IF formatJsonLogs /\ SessionUuid \notin DOMAIN sessionLogs
                                THEN "check" ELSE "idle"]
    /\ UNCHANGED <<args, mainPc, logSaveFormat, logPriority, formatJsonLogs, logDir,
                   showLogInConsole, maxLogSize, sessions, logFile, sessionLogs, files,
                   writerPc, cur, sentinelAt, ioLog, closeOutcome>>

\* Line 240: if self.sessionUuid not in self.__sessionLogs
EmitCheck(p) ==
    /\ prod[p] = "check"
    /\ prod' = [prod EXCEPT ![p] =
                  IF SessionUuid \notin DOMAIN sessionLogs THEN "create" ELSE "idle"]
    /\ UNCHANGED <<args, mainPc, logSaveFormat, logPriority, formatJsonLogs, logDir,
                   showLogInConsole, maxLogSize, sessions, logFile, sessionLogs, queue,
                   files, writerPc, cur, emits, enqueued, sentinelAt, ioLog,
                   closeOutcome>>
    /\ lastCall' = NoCall

\* Line 241: self.__sessionLogs[self.sessionUuid] = []
EmitCreate(p) ==
    /\ prod[p] = "create"
    /\ sessionLogs' = (SessionUuid :> <<>>)
    /\ prod' = [prod EXCEPT ![p] = "idle"]
    /\ UNCHANGED <<args, mainPc, logSaveFormat, logPriority, formatJsonLogs, logDir,
                   showLogInConsole, maxLogSize, sessions, logFile, queue, files,
                   writerPc, cur, emits, enqueued, sentinelAt, ioLog,
                   closeOutcome>>
    /\ lastCall' = NoCall

(***************************************************************************)
(* The writer thread, __writeToFile (lines 327-352).  An exception in the  *)
(* loop reaches sys.exit(1), which in a thread other than the main one     *)
(* raises SystemExit in that thread only: the writer ends, the process     *)
(* goes on.                                                                *)
(***************************************************************************)
\* Lines 328-332: collectedLogs = self.__queue.get(), then, for a record,
\* __logRotation (lines 288-302) under the lock.  The rotation reads and
\* writes only what no other running thread touches, so it is one step
\* with the get.
WriterGet ==
    /\ writerPc = "get"
    /\ queue # <<>>
    /\ queue' = Tail(queue)
    /\ IF QueueGet(queue) = Sentinel
       THEN /\ writerPc' = "exited"
            /\ UNCHANGED <<cur, logFile, sessions, files, ioLog>>
       ELSE IF logFile = NoFile \/ ~files[logFile].exists
       THEN \* os.path.getsize raises: "An Error Occurred in Log rotation", sys.exit(1)
            /\ writerPc' = "failed"
            /\ UNCHANGED <<cur, logFile, sessions, files, ioLog>>
       ELSE /\ writerPc' = "persist"
            /\ cur' = QueueGet(queue)
            /\ IF NeedsRotation(GetSize(files[logFile]), maxLogSize)
               THEN /\ logFile' = sessions
                    /\ sessions' = NextCounter(sessions)
                    /\ files' = OpenW(files, sessions)
                    /\ ioLog' = ioLog \cup {"stat", "create"}
               ELSE /\ ioLog' = ioLog \cup {"stat"}
                    /\ UNCHANGED <<logFile, sessions, files>>
    /\ UNCHANGED <<args, mainPc, logSaveFormat, logPriority, formatJsonLogs, logDir,
                   showLogInConsole, maxLogSize, sessionLogs, prod, emits,
                   enqueued, sentinelAt, closeOutcome>>
    /\ lastCall' = NoCall

\* Lines 333-348: under the lock, the append to the session and the write.
WriterPersist ==
    /\ writerPc = "persist"
    /\ cur' = Unset
    /\ IF formatJsonLogs /\ SessionUuid \notin DOMAIN sessionLogs
       THEN \* line 335 raises KeyError: "Error writing logs to file", sys.exit(1)
            /\ writerPc' = "failed"
            /\ UNCHANGED <<sessionLogs, files, ioLog>>
       ELSE LET map == IF formatJsonLogs
                       THEN (SessionUuid :> Append(sessionLogs[SessionUuid], cur))
                       ELSE sessionLogs
            IN IF logSaveFormat = "json" /\ ~Serializable(cur)
               THEN \* json raises TypeError: "Error writing logs to file", sys.exit(1)
                    /\ sessionLogs' = map
                    /\ files' = [files EXCEPT ![logFile] =
                                    PersistInterrupted(files[logFile], formatJsonLogs, map)]
                    /\ ioLog' = IF formatJsonLogs THEN ioLog \cup {"write"} ELSE ioLog
                    /\ writerPc' = "failed"
               ELSE /\ sessionLogs' = map
                    /\ files' = [files EXCEPT ![logFile] =
                                    Persist(files[logFile], cur, logSaveFormat, formatJsonLogs, map)]
                    /\ ioLog' = ioLog \cup {"write"}
                    /\ writerPc' = "get"
    /\ UNCHANGED <<args, mainPc, logSaveFormat, logPriority, formatJsonLogs, logDir,
                   showLogInConsole, maxLogSize, sessions, logFile, queue, prod, emits, enqueued, sentinelAt, closeOutcome>>
    /\ lastCall' = NoCall

(***************************************************************************)
(* close(), lines 391-413.                                                 *)
(***************************************************************************)
\* Line 401: self.__queue.put(None)
CloseBegin ==
    /\ mainPc = "ready"
    /\ queue' = QueuePut(queue, Sentinel)
    /\ sentinelAt' = Len(enqueued)
    /\ mainPc' = "closing"
    /\ UNCHANGED <<args, logSaveFormat, logPriority, formatJsonLogs, logDir,
                   showLogInConsole, maxLogSize, sessions, logFile, sessionLogs, files,
                   writerPc, cur, prod, emits, enqueued, ioLog, closeOutcome>>
    /\ lastCall' = NoCall

\* Mutant of JoinReturns: close() does not wait for the writer.
JoinReturnsAtOnce == TRUE

\* Line 402: self.__writer.join() returns once the writer thread has ended.
JoinReturns == writerPc \in {"exited", "failed"}

\* Mutant of FileHasLogs: close() takes every file for empty.
FileHasLogsNever(file) == FALSE

\* Line 404: if checkSize.read()
FileHasLogs(file) == file.content # <<>>

\* Line 410: os.remove
Remove(file) == [exists |-> FALSE, content |-> <<>>]

\* Lines 402-413: the join, then the inspection of the active file.
CloseFinish ==
    /\ mainPc = "closing"
    /\ JoinReturns
    /\ IF logFile = NoFile
       THEN \* line 403 reads self.__logFile, never assigned: AttributeError
            /\ mainPc' = "closeRaised"
            /\ UNCHANGED <<files, ioLog, closeOutcome>>
       ELSE IF FileHasLogs(files[logFile])
       THEN /\ mainPc' = "closed"
            /\ closeOutcome' = "kept"
            /\ ioLog' = ioLog \cup {"read"}
            /\ UNCHANGED files
       ELSE /\ mainPc' = "closed"
            /\ closeOutcome' = "deleted"
            /\ ioLog' = ioLog \cup {"read", "delete"}
            /\ files' = [files EXCEPT ![logFile] = Remove(files[logFile])]
    /\ UNCHANGED <<args, logSaveFormat, logPriority, formatJsonLogs, logDir,
                   showLogInConsole, maxLogSize, sessions, logFile, sessionLogs, queue,
                   writerPc, cur, prod, emits, enqueued, sentinelAt>>
    /\ lastCall' = NoCall

NextOver(methods, messages, bound) ==
    \/ Construct
    \/ \E p \in Producers, method \in methods, message \in messages, explicit \in Explicits :
          EmitCall(p, method, message, explicit, bound)
    \/ \E p \in Producers : EmitCheck(p)
    \/ \E p \in Producers : EmitCreate(p)
    \/ WriterGet
    \/ WriterPersist
    \/ CloseBegin
    \/ CloseFinish

NextWith(methods, bound) == NextOver(methods, Messages, bound)

Next == NextWith(PipelineMethods, MaxEmits)

NextFilter == NextWith(Methods, MaxFilterEmits)

Init == InitWith(PipelineArgs)

InitFilter == InitWith(FilterArgs)

Spec == Init /\ [][Next]_vars

SpecFilter == InitFilter /\ [][NextFilter]_vars

(***************************************************************************)
(* Scheduling.  The writer and the thread that called close() are          *)
(* operating-system threads: each takes its next step once that step       *)
(* stays possible, the writer as soon as the queue holds an item, close()  *)
(* as soon as the join can return.  Nothing obliges a producer to make     *)
(* another call.                                                           *)
(***************************************************************************)
SpecFair ==
    /\ Spec
    /\ WF_vars(WriterGet)
    /\ WF_vars(WriterPersist)
    /\ WF_vars(CloseFinish)

(***************************************************************************)
(* The same program in an environment where file operations can fail: the  *)
(* log file or its directory is removed or made unwritable from outside,   *)
(* or the disk is full.  os.path.getsize and open then raise OSError       *)
(* inside the writer loop, whose handlers (lines 298-302 and 349-352)      *)
(* print the error and call sys.exit(1) in the writer thread.              *)
(***************************************************************************)
\* Lines 288-302: os.path.getsize or the open of the new file raises during
\* the rotation check for the record just dequeued.
WriterRotationFails ==
    /\ writerPc = "get"
    /\ queue # <<>>
    /\ QueueGet(queue) # Sentinel
    /\ queue' = Tail(queue)
    /\ writerPc' = "failed"
    /\ UNCHANGED <<args, mainPc, logSaveFormat, logPriority, formatJsonLogs, logDir,
                   showLogInConsole, maxLogSize, sessions, logFile, sessionLogs, files,
                   cur, prod, emits, enqueued, sentinelAt, ioLog, closeOutcome>>
    /\ lastCall' = NoCall

\* Lines 333-352: the open of the active file raises, after the append of
\* line 335 when aggregation is on; nothing is written.
WriterWriteFails ==
    /\ writerPc = "persist"
    /\ ~(formatJsonLogs /\ SessionUuid \notin DOMAIN sessionLogs)
    /\ sessionLogs' = IF formatJsonLogs
                      THEN (SessionUuid :> Append(sessionLogs[SessionUuid], cur))
                      ELSE sessionLogs
    /\ cur' = Unset
    /\ writerPc' = "failed"
    /\ UNCHANGED <<args, mainPc, logSaveFormat, logPriority, formatJsonLogs, logDir,
                   showLogInConsole, maxLogSize, sessions, logFile, queue, files, prod,
                   emits, enqueued, sentinelAt, ioLog, closeOutcome>>
    /\ lastCall' = NoCall

NextFault ==
    \/ Next
    \/ WriterRotationFails
    \/ WriterWriteFails

SpecFault == Init /\ [][NextFault]_vars

(***************************************************************************)
(* The runs that vary the message handed to an emit call, on a logger with *)
(* a directory and everything admitted.                                    *)
(***************************************************************************)
MessageRunArgs ==
    [logPriority : {"DEBUG"},
     logSaveFormat : {"json", "txt"},
     logDirPath : {LogDirPath},
     showLogInConsole : {TRUE},
     formatJsonLog : BOOLEAN,
     maxLogSize : {LineBytes, 3}]

MessageMethods == {"DEBUG", "exception"}

InitMessages == InitWith(MessageRunArgs)

NextMessages == NextOver(MessageMethods, MessageArgs, MaxEmits)

SpecMessages == InitMessages /\ [][NextMessages]_vars

(***************************************************************************)
(* __getPriority called on its own, lines 268-271, with a level of any     *)
(* spelling.  Inside __log it only ever receives the upper-case name of a  *)
(* severity method and the upper-cased logPriority.                        *)
(***************************************************************************)
LevelArgs == PriorityArgs \cup {"Info", ""}

Ranked(level, n) ==
    [status |-> "ranked", logType |-> level, explicit |-> None, ret |-> [rank |-> n]]

RankRaised(level) ==
    [status |-> "rankRaised", logType |-> level, explicit |-> None, ret |-> NoneLog]

GetPriorityCall(level) ==
    /\ Constructed
    /\ lastCall' = IF GetPriority(level) = ValueError
                   THEN RankRaised(level)
                   ELSE Ranked(level, GetPriority(level))
    /\ UNCHANGED <<args, mainPc, logSaveFormat, logPriority, formatJsonLogs, logDir,
                   showLogInConsole, maxLogSize, sessions, logFile, sessionLogs, queue,
                   files, writerPc, cur, prod, emits, enqueued, sentinelAt, ioLog,
                   closeOutcome>>

NextRank ==
    \/ Construct
    \/ \E level \in LevelArgs : GetPriorityCall(level)

SpecRank == InitFilter /\ [][NextRank]_vars

(***************************************************************************)
(* Vocabulary of the properties, from the specification's data model:      *)
(* the declared severity order, the records a file holds, and the states   *)
(* in which the writer has nothing left to do.                             *)
(***************************************************************************)
SeverityOrder == <<"DEBUG", "INFO", "WARNING", "ERROR", "CRITICAL">>

Position(level) == CHOOSE i \in 1..Len(SeverityOrder) : SeverityOrder[i] = level

IsSeverity(level) == \E i \in 1..Len(SeverityOrder) : SeverityOrder[i] = level

RanksBelow(level, minLevel) ==
    /\ IsSeverity(level)
    /\ IsSeverity(minLevel)
    /\ Position(level) < Position(minLevel)

IsAdmitted(level, minLevel) ==
    /\ IsSeverity(level)
    /\ IsSeverity(minLevel)
    /\ Position(level) >= Position(minLevel)

\* The record a persisted JSON object or text line stands for.
RecordOf(line) == CurrentLog(line.seq, line.Level, line.Message)

\* json.load of a document: the mapping from its keys to their record lists.
ParseDoc(chunk) ==
    [k \in chunk.keys |-> [i \in 1..Len(chunk.items[k]) |-> RecordOf(chunk.items[k][i])]]

\* An unfinished document does not parse: no record can be read from it.
RecordsOfChunk(chunk) ==
    IF chunk.kind = "doc"
    THEN IF SessionUuid \in chunk.keys THEN ParseDoc(chunk)[SessionUuid] ELSE <<>>
    ELSE IF chunk.kind = "partial" THEN <<>>
    ELSE <<RecordOf(chunk)>>

RECURSIVE RecordsOfContent(_)
RecordsOfContent(content) ==
    IF content = <<>> THEN <<>>
    ELSE RecordsOfChunk(Head(content)) \o RecordsOfContent(Tail(content))

\* The records of the files named with counters 1..n, in counter order.
RECURSIVE RecordsUpTo(_)
RecordsUpTo(n) ==
    IF n = 0 THEN <<>>
    ELSE RecordsUpTo(n - 1) \o RecordsOfContent(files[n].content)

PersistedRecords == RecordsUpTo(Len(files))

FileMode == Constructed /\ logDir # None

QueuedRecords == {i \in 1..Len(queue) : queue[i] # Sentinel}

\* The writer has taken every record put so far and finished with it.
Drained == QueuedRecords = {} /\ writerPc # "persist"

\* Nothing is in progress: no producer is inside a call and the writer is
\* waiting on an empty queue or has ended.
Settled ==
    /\ \A p \in Producers : prod[p] = "idle"
    /\ \/ writerPc = "get" /\ queue = <<>>
       \/ writerPc \in {"exited", "failed"}

\* Every record was put before close() put the sentinel.
AllBeforeSentinel == sentinelAt = -1 \/ sentinelAt = Len(enqueued)

\* The records put before close() put the sentinel.
EnqueuedBeforeClose ==
    IF sentinelAt = -1 THEN enqueued ELSE SubSeq(enqueued, 1, sentinelAt)

AllAdmitted(records) ==
    \A i \in 1..Len(records) : IsAdmitted(records[i].Level, logPriority)

AllBelow(records) ==
    \A i \in 1..Len(records) : RanksBelow(records[i].Level, logPriority)

(***************************************************************************)
(* C1.  With an output directory, a record whose severity ranks strictly   *)
(* below the minimum priority is never put on the ingest queue and never   *)
(* appears in a persisted file.                                            *)
(***************************************************************************)
C1_BelowPriorityNeverQueuedNorPersisted ==
    FileMode =>
        /\ \A i \in 1..Len(enqueued) : ~RanksBelow(enqueued[i].Level, logPriority)
        /\ \A i \in 1..Len(PersistedRecords) :
              ~RanksBelow(PersistedRecords[i].Level, logPriority)

(***************************************************************************)
(* C2.  An emit call whose severity ranks strictly below the minimum       *)
(* priority returns no display string, with or without an output           *)
(* directory, whatever the explicit echo argument and the instance default.*)
(***************************************************************************)
C2_BelowPriorityNeverEchoed ==
    RanksBelow(lastCall.logType, logPriority) =>
        /\ lastCall.status = "returned"
        /\ lastCall.ret = NoneLog

C2_Witness ==
    /\ RanksBelow(lastCall.logType, logPriority)
    /\ lastCall.status = "returned"
    /\ lastCall.explicit = "True"
    /\ logDir # None
    /\ showLogInConsole

(***************************************************************************)
(* C3.  Without aggregation (txt and json-per-line), once the writer has   *)
(* drained the queue after N admitted records were emitted, the files      *)
(* taken in rotation-counter order hold exactly those N records in         *)
(* emission order.                                                         *)
(***************************************************************************)
C3_DrainedFilesHoldEmittedInOrder ==
    (FileMode /\ ~formatJsonLogs /\ Drained /\ AllAdmitted(enqueued)) =>
        PersistedRecords = enqueued

C3_Witness ==
    /\ FileMode /\ ~formatJsonLogs /\ Drained /\ AllAdmitted(enqueued)
    /\ Len(enqueued) = 2
    /\ Len(files) = 2
    /\ PersistedRecords = enqueued

(***************************************************************************)
(* C4.  With aggregation, the writer never fails, and once nothing is in   *)
(* progress the session's sequence is the sequence of the records emitted, *)
(* in emission order, under every interleaving of producers and writer.    *)
(***************************************************************************)
C4_SessionHoldsEmittedInOrder ==
    (FileMode /\ formatJsonLogs) =>
        /\ writerPc # "failed"
        /\ (Settled /\ AllBeforeSentinel /\ enqueued # <<>>) =>
              /\ SessionUuid \in DOMAIN sessionLogs
              /\ sessionLogs[SessionUuid] = enqueued

(***************************************************************************)
(* C5.  With aggregation and the json format, the active file, once        *)
(* written, is one complete document with the session id as its only key,  *)
(* holding the records persisted so far in order; and the final file after *)
(* close() parses back to all the records emitted before it, in order.     *)
(***************************************************************************)
C5_AggregateFileIsWholeSession ==
    (FileMode /\ formatJsonLogs /\ logSaveFormat = "json") =>
        /\ (files[logFile].content # <<>>) =>
              /\ Len(files[logFile].content) = 1
              /\ files[logFile].content[1].kind = "doc"
              /\ DOMAIN ParseDoc(files[logFile].content[1]) = {SessionUuid}
              /\ SessionUuid \in DOMAIN sessionLogs
              /\ ParseDoc(files[logFile].content[1])[SessionUuid] = sessionLogs[SessionUuid]
        /\ (mainPc = "closed" /\ EnqueuedBeforeClose # <<>>) =>
              /\ files[logFile].exists
              /\ Len(files[logFile].content) = 1
              /\ ParseDoc(files[logFile].content[1]) = (SessionUuid :> EnqueuedBeforeClose)

(***************************************************************************)
(* C6.  With a threshold above zero that one persisted record reaches,     *)
(* two admitted records emitted end up in exactly two files: the first     *)
(* record in the file with counter 1, the second in the file with          *)
(* counter 2.                                                              *)
(***************************************************************************)
C6_TwoRecordsTwoFiles ==
    (/\ FileMode
     /\ maxLogSize > 0
     /\ LineBytes >= maxLogSize
     /\ Len(enqueued) = 2
     /\ AllAdmitted(enqueued)
     /\ AllBeforeSentinel
     /\ Settled) =>
        /\ Len(files) = 2
        /\ \E i \in 1..Len(RecordsOfContent(files[1].content)) :
              RecordsOfContent(files[1].content)[i] = enqueued[1]
        /\ \E i \in 1..Len(RecordsOfContent(files[2].content)) :
              RecordsOfContent(files[2].content)[i] = enqueued[2]

(***************************************************************************)
(* C7.  close() inspects the active file only after it has put the         *)
(* sentinel and the writer has ended; it deletes the file when it is empty *)
(* and keeps it as it is otherwise, so after close() has returned the      *)
(* active file exists exactly when it holds at least one record.           *)
(***************************************************************************)
C7_Inspected ==
    /\ ("read" \in ioLog) => (sentinelAt >= 0 /\ writerPc \in {"exited", "failed"})
    /\ (mainPc = "closed") =>
          /\ "read" \in ioLog
          /\ files[logFile].exists <=> (RecordsOfContent(files[logFile].content) # <<>>)
          /\ (closeOutcome = "deleted") <=> ~files[logFile].exists
          /\ (closeOutcome = "kept") <=> files[logFile].exists

\* The step in which close() returns: an empty active file is removed, a
\* non-empty one is left as it is, and no other file changes.
C7_CloseStep ==
    (mainPc = "closing" /\ mainPc' = "closed") =>
        /\ writerPc \in {"exited", "failed"}
        /\ Len(files') = Len(files)
        /\ \A c \in 1..Len(files) : c # logFile => files'[c] = files[c]
        /\ IF RecordsOfContent(files[logFile].content) = <<>>
           THEN ~files'[logFile].exists
           ELSE files'[logFile] = files[logFile]

C7_CloseInspectsAfterWriterEnded == []C7_Inspected /\ [][C7_CloseStep]_vars

C7_Witness ==
    /\ mainPc = "closed"
    /\ closeOutcome = "kept"
    /\ Len(files) = 2
    /\ RecordsOfContent(files[logFile].content) # <<>>

(***************************************************************************)
(* C8.  With an output directory, when every emit call made before         *)
(* close() has a severity below the minimum priority, close() finds the    *)
(* log file empty and deletes it.                                          *)
(***************************************************************************)
C8_OnlyFilteredEmitsThenCloseDeletes ==
    (FileMode /\ mainPc = "closed" /\ AllBeforeSentinel /\ AllBelow(enqueued)) =>
        /\ closeOutcome = "deleted"
        /\ ~files[logFile].exists

(***************************************************************************)
(* C9.  For an admitted emit call, with or without an output directory,    *)
(* the display string is returned exactly when the resolved echo policy is *)
(* true: the explicit argument when one is given, the instance default     *)
(* otherwise.                                                              *)
(***************************************************************************)
ResolvedEcho(explicit, default) ==
    IF explicit = "True" THEN TRUE
    ELSE IF explicit = "False" THEN FALSE
    ELSE default

C9_EchoFollowsResolvedPolicy ==
    (lastCall.status = "returned" /\ IsAdmitted(lastCall.logType, logPriority)) =>
        ((lastCall.ret # NoneLog) <=> ResolvedEcho(lastCall.explicit, showLogInConsole))

(***************************************************************************)
(* C10.  Without an output directory no operation touches a file, no       *)
(* record is put on the queue, and construction, every emit call and       *)
(* close() complete normally.                                              *)
(***************************************************************************)
C10_ConsoleOnlyTouchesNothing ==
    (Constructed /\ logDir = None) =>
        /\ ioLog = {}
        /\ files = <<>>
        /\ enqueued = <<>>
        /\ QueuedRecords = {}
        /\ lastCall.status # "raised"
        /\ mainPc # "closeRaised"

(***************************************************************************)
(* C11.  Construction fails exactly when the save format, compared without *)
(* regard to letter case, is neither "json" nor "txt", with or without an  *)
(* output directory and whatever the other arguments are.                  *)
(***************************************************************************)
C11_ConstructionFailsExactlyOnBadFormat ==
    (mainPc # "new") =>
        ((mainPc = "exited") <=> (logSaveFormat \notin {"json", "txt"}))

(***************************************************************************)
(* C12.  Once rotation or a write has failed inside the writer loop the    *)
(* whole process is over: no further record is persisted, the records      *)
(* still in the queue stay there, no producer runs an emit call and the    *)
(* main thread goes no further; no emit call raises.                       *)
(***************************************************************************)
C12_AfterFailure ==
    (writerPc = "failed") =>
        /\ PersistedRecords' = PersistedRecords
        /\ Len(queue') >= Len(queue)
        /\ SubSeq(queue', 1, Len(queue)) = queue
        /\ emits' = emits
        /\ prod' = prod
        /\ mainPc' = mainPc
        /\ lastCall'.status # "raised"

C12_WriterFailureEndsProcess == [][C12_AfterFailure]_vars

(***************************************************************************)
(* C13.  The rank of the five severity names is strictly increasing in the *)
(* declared order; a call of rank on one of the five names in any letter   *)
(* case returns the rank of the upper-case name; a call on any other       *)
(* string raises.                                                          *)
(***************************************************************************)
C13_RankOrderedCaseInsensitiveTotal ==
    /\ \A i, j \in 1..Len(SeverityOrder) :
          i < j =>
             /\ GetPriority(SeverityOrder[i]) # ValueError
             /\ GetPriority(SeverityOrder[j]) # ValueError
             /\ GetPriority(SeverityOrder[i]) < GetPriority(SeverityOrder[j])
    /\ (lastCall.status \in {"ranked", "rankRaised"}) =>
          IF IsSeverity(Upper(lastCall.logType))
          THEN /\ lastCall.status = "ranked"
               /\ lastCall.ret.rank = GetPriority(Upper(lastCall.logType))
          ELSE lastCall.status = "rankRaised"

(***************************************************************************)
(* C14.  On a constructed logger, whatever minimum priority was passed to  *)
(* the constructor, no call of a severity method or of exception raises    *)
(* the invalid-level error to its caller.                                  *)
(***************************************************************************)
C14_NoEmitRaisesInvalidLevel ==
    Constructed => lastCall.status # "raised"

(***************************************************************************)
(* C15.  With several producers, the records in the files, taken in        *)
(* rotation-counter order, are at every moment the first records put on    *)
(* the queue, in the order of their puts, none twice; once the queue is    *)
(* drained they are all the records put.  A call is one put, made in the   *)
(* calling thread, so the order of the puts contains each producer's       *)
(* program order.                                                          *)
(***************************************************************************)
IsPrefix(s, t) == Len(s) <= Len(t) /\ SubSeq(t, 1, Len(s)) = s

C15_PersistedInEnqueueOrder ==
    FileMode =>
        /\ IsPrefix(PersistedRecords, enqueued)
        /\ \A i, j \in 1..Len(PersistedRecords) :
              i < j => PersistedRecords[i].seq < PersistedRecords[j].seq
        /\ Drained => PersistedRecords = enqueued

(***************************************************************************)
(* C16.  The writer thread has ended exactly when close() has put the      *)
(* sentinel and the writer has taken it off the queue: it never ends by    *)
(* any other path.                                                         *)
(***************************************************************************)
SentinelDequeued == sentinelAt >= 0 /\ \A i \in 1..Len(queue) : queue[i] # Sentinel

WriterEnded == writerPc \in {"exited", "failed"}

C16_WriterEndsExactlyOnSentinel ==
    (writerPc # "notStarted") => (WriterEnded <=> SentinelDequeued)

(***************************************************************************)
(* C17.  Every record the writer dequeues gets one rotation check, in the  *)
(* step that dequeues it and before the step that persists it.  The check  *)
(* makes a new empty file the active one exactly when the active file's    *)
(* size is at or above the threshold, and nothing else changes the active  *)
(* file.  So, without aggregation, the record is appended either to the    *)
(* file that was active when it was dequeued, whose size was then below    *)
(* the threshold, or to a file that did not exist then.                    *)
(***************************************************************************)
C17_RecordDequeued ==
    /\ writerPc = "get"
    /\ writerPc' # "get"
    /\ queue # <<>>
    /\ QueueGet(queue) # Sentinel

C17_CheckStep ==
    C17_RecordDequeued =>
        /\ writerPc' = "persist"
        /\ cur' = QueueGet(queue)
        /\ "stat" \in ioLog'
        /\ IF GetSize(files[logFile]) >= maxLogSize
           THEN /\ logFile' \notin DOMAIN files
                /\ files' = Append(files, EmptyFile)
                /\ files'[logFile'] = EmptyFile
           ELSE /\ logFile' = logFile
                /\ files' = files

C17_OnlyCheckSwitches ==
    (Constructed /\ (logFile' # logFile \/ Len(files') # Len(files))) => C17_RecordDequeued

C17_PersistStep ==
    (writerPc = "persist" /\ writerPc' = "get" /\ ~formatJsonLogs) =>
        /\ logFile' = logFile
        /\ RecordsOfContent(files'[logFile].content) =
              Append(RecordsOfContent(files[logFile].content), cur)
        /\ \A c \in 1..Len(files) : c # logFile => files'[c] = files[c]
        /\ \/ files[logFile] = EmptyFile
           \/ GetSize(files[logFile]) < maxLogSize

C17_Persisting ==
    (writerPc = "persist") =>
        /\ cur # Unset
        /\ \/ files[logFile] = EmptyFile
           \/ GetSize(files[logFile]) < maxLogSize

C17_RotationCheckedOncePerRecord ==
    /\ []C17_Persisting
    /\ [][C17_CheckStep /\ C17_OnlyCheckSwitches /\ C17_PersistStep]_vars

C17_Witness ==
    /\ FileMode /\ ~formatJsonLogs
    /\ maxLogSize = LineBytes
    /\ writerPc = "get"
    /\ Len(files) = 2
    /\ logFile = 2
    /\ RecordsOfContent(files[1].content) = <<enqueued[1]>>
    /\ RecordsOfContent(files[2].content) = <<enqueued[2]>>

(***************************************************************************)
(* C18.  The file created at construction carries the counter 1 and every  *)
(* file created later the next counter: the files created so far carry    *)
(* the counters 1..k without gap or repeat, the active file is the one     *)
(* with counter k, and no step creates a file under a name already used.   *)
(***************************************************************************)
C18_Counters ==
    FileMode =>
        /\ Len(files) >= 1
        /\ sessions = Len(files) + 1
        /\ logFile = Len(files)
        /\ \A c \in 1..Len(files) :
              files[c].exists \/ (c = logFile /\ closeOutcome = "deleted")

C18_FirstFile ==
    (mainPc = "new" /\ mainPc' = "ready" /\ logDir' # None) =>
        /\ logFile' = 1
        /\ files' = <<EmptyFile>>

C18_NextFile ==
    Constructed =>
        /\ Len(files') \in {Len(files), Len(files) + 1}
        /\ (Len(files') = Len(files) + 1) =>
              /\ logFile' = Len(files) + 1
              /\ files'[logFile'] = EmptyFile
        /\ (Len(files') = Len(files)) => logFile' = logFile
        /\ \A c \in 1..Len(files) :
              (files'[c] = EmptyFile) => (files[c] = EmptyFile)

C18_CountersRunFromOneWithoutGapOrRepeat ==
    []C18_Counters /\ [][C18_FirstFile /\ C18_NextFile]_vars

C18_Witness ==
    /\ FileMode
    /\ Len(files) = 3
    /\ logFile = 3
    /\ sessions = 4
    /\ \A c \in 1..3 : files[c].exists
    /\ RecordsOfContent(files[3].content) # <<>>

(***************************************************************************)
(* C19.  After construction every step that changes the active file path,  *)
(* the rotation counter or the session map is a step of the writer thread  *)
(* (its rotation check or its persistence block, both under the lock), and *)
(* no step of a producer inside an emit call reads or writes any of them:  *)
(* no producer runs the test of line 240 or the assignment of line 241.    *)
(***************************************************************************)
C19_WriterStep ==
    /\ writerPc \in {"get", "persist"}
    /\ writerPc' # writerPc
    /\ prod' = prod
    /\ mainPc' = mainPc

C19_SharedStateStep ==
    Constructed =>
        /\ (<<logFile, sessions, sessionLogs>>' # <<logFile, sessions, sessionLogs>>)
              => C19_WriterStep
        /\ \A p \in Producers :
              (prod[p] \in {"check", "create"}) => (prod'[p] = prod[p])

C19_SharedStateTouchedOnlyByWriter == [][C19_SharedStateStep]_vars

(***************************************************************************)
(* C20.  Once the writer has exited, and whenever close() has inspected    *)
(* the final file, every record put on the queue before the sentinel is in *)
(* the files; and, with no I/O failure and a fairly scheduled writer,      *)
(* close() on a logger with an output directory returns, whatever the      *)
(* queue holds when it is called.                                          *)
(***************************************************************************)
IsPersisted(rec) == \E i \in 1..Len(PersistedRecords) : PersistedRecords[i] = rec

C20_RecordsBeforeClosePersisted ==
    (FileMode /\ (writerPc = "exited" \/ "read" \in ioLog)) =>
        \A i \in 1..Len(EnqueuedBeforeClose) : IsPersisted(EnqueuedBeforeClose[i])

C20_CloseReturns ==
    (mainPc = "closing" /\ logDir # None) ~> (mainPc = "closed")

C20_DrainedBeforeCloseReturns == []C20_RecordsBeforeClosePersisted /\ C20_CloseReturns

(***************************************************************************)
(* C21.  The step in which the writer persists the record it dequeued.     *)
(* With aggregation the record is appended to the session's sequence, and  *)
(* without it the session map is left alone.  As the claim has it, the     *)
(* file is then written by one chain of alternatives that starts at the    *)
(* aggregation test: with aggregation the whole map replaces the file's    *)
(* content if the format is json and nothing is written otherwise; without *)
(* aggregation one JSON line is appended for json, one text line for txt.  *)
(***************************************************************************)
C21_PersistStepDone == writerPc = "persist" /\ writerPc' = "get"

C21_SessionAppended ==
    IF formatJsonLogs
    THEN /\ SessionUuid \in DOMAIN sessionLogs'
         /\ sessionLogs'[SessionUuid] = Append(sessionLogs[SessionUuid], cur)
    ELSE sessionLogs' = sessionLogs

C21_OthersUntouched ==
    /\ logFile' = logFile
    /\ Len(files') = Len(files)
    /\ \A c \in 1..Len(files) : c # logFile => files'[c] = files[c]

C21_ChainFromAggregation ==
    C21_PersistStepDone =>
        /\ C21_SessionAppended
        /\ C21_OthersUntouched
        /\ IF formatJsonLogs
           THEN IF logSaveFormat = "json"
                THEN files'[logFile].content = <<JsonDoc(sessionLogs')>>
                ELSE files'[logFile] = files[logFile]
           ELSE IF logSaveFormat = "json"
                THEN files'[logFile].content = Append(files[logFile].content, JsonLine(cur))
                ELSE files'[logFile].content = Append(files[logFile].content, TxtLine(cur))

C21_ChainFromFormat ==
    C21_PersistStepDone =>
        /\ C21_SessionAppended
        /\ C21_OthersUntouched
        /\ IF logSaveFormat = "json"
           THEN IF formatJsonLogs
                THEN files'[logFile].content = <<JsonDoc(sessionLogs')>>
                ELSE files'[logFile].content = Append(files[logFile].content, JsonLine(cur))
           ELSE files'[logFile].content = Append(files[logFile].content, TxtLine(cur))

C22_CloseReturning == mainPc = "closing" /\ mainPc' = "closed"

C22_FilesStep ==
    /\ Len(files') >= Len(files)
    /\ \A c \in 1..Len(files) :
          /\ (files[c].exists /\ ~files'[c].exists) =>
                /\ C22_CloseReturning
                /\ c = logFile
                /\ c = Len(files)
                /\ files[c].content = <<>>
          /\ (files[c].content # <<>>) => (files'[c].content # <<>>)
          /\ (c < logFile) => (files'[c] = files[c])
          /\ (~formatJsonLogs) => IsPrefix(files[c].content, files'[c].content)
    /\ (Constructed /\ logFile' # logFile) =>
          /\ GetSize(files[logFile]) >= maxLogSize
          /\ files'[logFile] = files[logFile]

C22_FilesNeverLoseContent == [][C22_FilesStep]_vars

C22_Witness ==
    /\ FileMode /\ ~formatJsonLogs
    /\ mainPc = "closed"
    /\ maxLogSize = LineBytes
    /\ Len(files) = 2
    /\ files[1].exists /\ files[2].exists
    /\ Len(files[1].content) = 1
    /\ Len(files[2].content) = 1

(***************************************************************************)
(* C23.  Whatever message an emit call is given, the item it puts on the   *)
(* queue is a record and not the sentinel, and only close() puts the       *)
(* sentinel; the writer persists every record it has dequeued and goes on  *)
(* to the next item, so it ends only by dequeuing the sentinel.            *)
(***************************************************************************)
C23_OnlyCloseStops ==
    /\ \A i \in 1..Len(enqueued) : enqueued[i] # Sentinel /\ enqueued[i].type = "dict"
    /\ \A i \in 1..Len(queue) : (queue[i] = Sentinel) => (sentinelAt >= 0)

C23_WriterKeepsRunning ==
    /\ (writerPc = "persist") =>
          /\ writerPc' \in {"persist", "get"}
          /\ (writerPc' = "get") =>
                \E i \in 1..Len(files'[logFile].content) :
                   \E j \in 1..Len(RecordsOfChunk(files'[logFile].content[i])) :
                      RecordsOfChunk(files'[logFile].content[i])[j] = cur
    /\ (writerPc = "get" /\ writerPc' \notin {"get", "persist"}) =>
          /\ queue # <<>>
          /\ QueueGet(queue) = Sentinel
          /\ mainPc = "closing"

C23_NoEmitStopsWriter == []C23_OnlyCloseStops /\ [][C23_WriterKeepsRunning]_vars

(***************************************************************************)
(* C24.  A record emitted after close() has put the sentinel stays on the  *)
(* queue: the writer never dequeues it and it reaches no file.  Once       *)
(* close() has returned no step changes the files or their contents, and   *)
(* an emit call made then on a logger with an output directory returns     *)
(* normally, its record accepted on the queue.                             *)
(***************************************************************************)
EnqueuedAfterClose ==
    IF sentinelAt = -1 THEN <<>> ELSE SubSeq(enqueued, sentinelAt + 1, Len(enqueued))

C24_LateRecordsStayQueued ==
    \A i \in 1..Len(EnqueuedAfterClose) :
        /\ \E j \in 1..Len(queue) : queue[j] = EnqueuedAfterClose[i]
        /\ cur # EnqueuedAfterClose[i]
        /\ ~IsPersisted(EnqueuedAfterClose[i])

C24_AfterCloseStep ==
    (mainPc = "closed") =>
        /\ files' = files
        /\ logFile' = logFile
        /\ writerPc' = writerPc
        /\ (emits' # emits) =>
              /\ lastCall'.status = "returned"
              /\ Len(enqueued') = Len(enqueued) + 1
              /\ queue' = Append(queue, enqueued'[Len(enqueued')])

C24_EmitsAfterCloseChangeNoFile == []C24_LateRecordsStayQueued /\ [][C24_AfterCloseStep]_vars

C24_Witness ==
    /\ mainPc = "closed"
    /\ closeOutcome = "kept"
    /\ sentinelAt = 1
    /\ Len(enqueued) = 2
    /\ IsPersisted(enqueued[1])
    /\ queue = <<enqueued[2]>>
    /\ lastCall.status = "returned"

====
